---------------------------- MODULE Spec2Model ----------------------------
(***************************************************************************)
(* Model of tateisi.py: the Tateisi et al. Japanese readability score.     *)
(*                                                                         *)
(* Tateisi.__init__ scans a text one character at a time, counting the     *)
(* characters and the runs of four letter classes and the kuten and toten  *)
(* marks, and derives ten statistics; calculate_rs_tateisi_a/_b are two    *)
(* linear combinations of the statistics.                                  *)
(*                                                                         *)
(* The statistics and scores are Python floats (IEEE 754 binary64, round   *)
(* to nearest, ties to even).  They are modelled bit for bit: a float is   *)
(* a sign, a 53-bit significand and an exponent, the significand held in   *)
(* limbs of 14 bits so that no intermediate leaves 32-bit integers.  The   *)
(* division is Python 3's true division.                                   *)
(***************************************************************************)
EXTENDS Integers, Sequences, FiniteSets, TLC

(***************************************************************************)
(* Naming a value.  Bind(v, Body) is Body applied to the value of v, with  *)
(* v evaluated once however often Body uses it; Bind2 to Bind4 name the    *)
(* values of several expressions.  The operators of the arithmetic below   *)
(* name their arguments and intermediate results this way, so that the     *)
(* cost of an operation does not depend on how its operands were written.  *)
(***************************************************************************)
Bind(v, Body(_)) == CHOOSE r \in {Body(x) : x \in {v}} : TRUE

Bind2(v, w, Body(_, _)) ==
  CHOOSE r \in {Body(p[1], p[2]) : p \in {<<v, w>>}} : TRUE

Bind3(v, w, x, Body(_, _, _)) ==
  CHOOSE r \in {Body(p[1], p[2], p[3]) : p \in {<<v, w, x>>}} : TRUE

Bind4(v, w, x, y, Body(_, _, _, _)) ==
  CHOOSE r \in {Body(p[1], p[2], p[3], p[4]) : p \in {<<v, w, x, y>>}} : TRUE

(***************************************************************************)
(* Natural numbers of arbitrary size: little-endian sequences of limbs.    *)
(***************************************************************************)
\* the bits of a limb, the limbs and the bits of a significand
LimbBits == 14
Base == 2 ^ LimbBits
ManLimbs == 4
WideLimbs == 2 * ManLimbs
ManBits == 53

Limb(x, i) == IF i >= 1 /\ i <= Len(x) THEN x[i] ELSE 0

\* the sequence as an explicit tuple
Tup(x) == x \o <<>>

BZero(n) == Tup([i \in 1..n |-> 0])

BFromInt(v, n) ==
  Tup([i \in 1..n |-> IF i = 1 THEN v % Base
                      ELSE IF i = 2 THEN (v \div Base) % Base
                      ELSE IF i = 3 THEN v \div (Base * Base)
                      ELSE 0])

BOne(n) == BFromInt(1, n)

BIsZero(x) == Bind(x, LAMBDA u : \A i \in 1..Len(u) : u[i] = 0)

BResize(x, n) == Bind(x, LAMBDA u : Tup([i \in 1..n |-> Limb(u, i)]))

\* the carry into limb i of x + y: some lower limb overflows and every limb
\* between passes the carry on
CarryIn(x, y, i) ==
  \E j \in 1..(i - 1) :
    /\ x[j] + Limb(y, j) >= Base
    /\ \A n \in (j + 1)..(i - 1) : x[n] + Limb(y, n) = Base - 1

BAdd(x, y) ==
  Bind2(x, y, LAMBDA u, v :
    Tup([i \in 1..Len(u) |->
           (u[i] + Limb(v, i) + (IF CarryIn(u, v, i) THEN 1 ELSE 0)) % Base]))

\* the borrow from limb i of x - y
BorrowIn(x, y, i) ==
  \E j \in 1..(i - 1) :
    /\ x[j] < Limb(y, j)
    /\ \A n \in (j + 1)..(i - 1) : x[n] = Limb(y, n)

\* x - y for x >= y
BSub(x, y) ==
  Bind2(x, y, LAMBDA u, v :
    Tup([i \in 1..Len(u) |->
           (u[i] - Limb(v, i) - (IF BorrowIn(u, v, i) THEN 1 ELSE 0)) % Base]))

\* 1, 0 or -1 as x > y, x = y or x < y
BCmp(x, y) ==
  Bind2(x, y, LAMBDA u, v :
    LET n == IF Len(u) > Len(v) THEN Len(u) ELSE Len(v)
        above(j) == \A t \in (j + 1)..n : Limb(u, t) = Limb(v, t)
    IN  IF \E j \in 1..n : Limb(u, j) > Limb(v, j) /\ above(j) THEN 1
        ELSE IF \E j \in 1..n : Limb(u, j) < Limb(v, j) /\ above(j) THEN -1
        ELSE 0)

BShl(x, n) ==
  Bind3(x, n \div LimbBits, n % LimbBits, LAMBDA u, ls, bs :
    Tup([i \in 1..Len(u) |->
           ((Limb(u, i - ls) * (2 ^ bs)) % Base)
           + (Limb(u, i - ls - 1) \div (2 ^ (LimbBits - bs)))]))

BShr(x, n) ==
  Bind3(x, n \div LimbBits, n % LimbBits, LAMBDA u, ls, bs :
    Tup([i \in 1..Len(u) |->
           (Limb(u, i + ls) \div (2 ^ bs))
           + ((Limb(u, i + ls + 1) % (2 ^ bs)) * (2 ^ (LimbBits - bs)))]))

\* the number of bits of a limb
IntBits(v) ==
  Bind(v, LAMBDA w :
    CHOOSE n \in 0..LimbBits : w < 2 ^ n /\ (n = 0 \/ w >= 2 ^ (n - 1)))

\* the highest limb of x that is not 0
TopLimb(x) == CHOOSE t \in 1..Len(x) : x[t] # 0 /\ \A j \in (t + 1)..Len(x) : x[j] = 0

BitLen(x) ==
  Bind(x, LAMBDA u :
    IF BIsZero(u) THEN 0
    ELSE Bind(TopLimb(u), LAMBDA top : (top - 1) * LimbBits + IntBits(u[top])))

\* the sequence of sums below Base^3, limb by limb, as a number
Carried(cols) ==
  Bind(Tup(cols), LAMBDA cv :
    BAdd(BAdd(Tup([i \in 1..Len(cv) |-> cv[i] % Base]),
              Tup([i \in 1..Len(cv) |-> (Limb(cv, i - 1) \div Base) % Base])),
         Tup([i \in 1..Len(cv) |-> Limb(cv, i - 2) \div (Base * Base)])))

\* the product of two significands
BMul(x, y) ==
  Bind2(x, y, LAMBDA u, v :
    Carried([n \in 1..(Len(u) + Len(v)) |->
               Limb(u, 1) * Limb(v, n) + Limb(u, 2) * Limb(v, n - 1)
               + Limb(u, 3) * Limb(v, n - 2) + Limb(u, 4) * Limb(v, n - 3)]))

\* the product of x and a single limb q
BMulSmall(x, q) ==
  Bind2(x, q, LAMBDA u, v : Carried([i \in 1..Len(u) |-> u[i] * v]))

(***************************************************************************)
(* Python floats.  [s, m, e] is (-1)^s * m * 2^e with m = 0 (and e = 0) or *)
(* 2^52 <= m < 2^53, a normal double.  A result outside the normal range   *)
(* (an infinity, a NaN, a subnormal) is the one value OutOfRange, which    *)
(* every operation hands on.                                               *)
(***************************************************************************)
FZero(s) == [s |-> s, m |-> BZero(ManLimbs), e |-> 0]

OutOfRange == [s |-> 0, m |-> <<>>, e |-> 1]

\* what a division by zero leaves in place of a value: ZeroDivisionError
Raised == [s |-> 0, m |-> <<>>, e |-> 0]

IsNumber(x) == Len(x.m) = ManLimbs

IsZero(x) == Bind(x, LAMBDA u : IsNumber(u) /\ BIsZero(u.m))

MaxExp == 1023 - 52
MinExp == -1022 - 52

InRange(x) ==
  Bind(x, LAMBDA u : IF u.e > MaxExp \/ u.e < MinExp THEN OutOfRange ELSE u)

\* x of n > ManBits bits cut to ManBits bits: the nearest, the even one of
\* two nearest unless sticky
RoundOff(s, x, e, sticky, n) ==
  Bind(BShr(x, n - ManBits), LAMBDA q :
    Bind(BCmp(BSub(x, BShl(q, n - ManBits)),
              BShl(BOne(Len(x)), n - ManBits - 1)), LAMBDA cmp :
      Bind(IF cmp = 1 \/ (cmp = 0 /\ (sticky \/ q[1] % 2 = 1))
           THEN BAdd(q, BOne(Len(x))) ELSE q, LAMBDA q1 :
        IF BitLen(q1) > ManBits
        THEN InRange([s |-> s, m |-> BResize(BShr(q1, 1), ManLimbs),
                      e |-> e + (n - ManBits) + 1])
        ELSE InRange([s |-> s, m |-> BResize(q1, ManLimbs),
                      e |-> e + (n - ManBits)]))))

\* value x * 2^e (+ a nonzero fraction of the last place when sticky),
\* rounded to nearest, ties to even
Round(s, x, e, sticky) ==
  Bind4(s, x, e, sticky, LAMBDA sv, xv, ev, st :
    Bind(BitLen(xv), LAMBDA n :
      IF n = 0 THEN FZero(sv)
      ELSE IF n <= ManBits
      THEN InRange([s |-> sv, m |-> BResize(BShl(xv, ManBits - n), ManLimbs),
                    e |-> ev - (ManBits - n)])
      ELSE RoundOff(sv, xv, ev, st, n)))

\* float(v), exact for the integers of the model
FromInt(v) ==
  Bind(v, LAMBDA w :
    IF w >= 0 THEN Round(0, BFromInt(w, WideLimbs), 0, FALSE)
    ELSE Round(1, BFromInt(-w, WideLimbs), 0, FALSE))

\* -x
FNeg(x) ==
  Bind(x, LAMBDA u : IF IsNumber(u) THEN [u EXCEPT !.s = 1 - u.s] ELSE u)

\* x * y
FMul(x, y) ==
  Bind2(x, y, LAMBDA u, v :
    IF ~IsNumber(u) THEN u
    ELSE IF ~IsNumber(v) THEN v
    ELSE IF IsZero(u) \/ IsZero(v) THEN FZero((u.s + v.s) % 2)
    ELSE Round((u.s + v.s) % 2, BMul(u.m, v.m), u.e + v.e, FALSE))

\* the largest q <= est with q * d <= r
RECURSIVE FixDigit(_, _, _)
FixDigit(r, d, est) ==
  Bind(est, LAMBDA q :
    IF BCmp(BMulSmall(d, q), r) > 0 THEN FixDigit(r, d, q - 1) ELSE q)

\* floor(r / d) for r < d * Base and 2^52 <= d < 2^53, estimated from the
\* leading bits of r and d and then corrected
DivDigit(r, d) ==
  Bind2(BShr(r, ManBits - LimbBits), BShr(d, ManBits - LimbBits),
        LAMBDA rt, dt :
    Bind((rt[1] + rt[2] * Base) \div dt[1], LAMBDA est :
      FixDigit(r, d, IF est > Base - 1 THEN Base - 1 ELSE est)))

\* long division in base 2^14: the n + 1 leading digits of r / d, least
\* significant first, and the remainder left
RECURSIVE DivDigits(_, _, _)
DivDigits(r, d, n) ==
  Bind3(r, d, n, LAMBDA rv, dv, nv :
    Bind(DivDigit(rv, dv), LAMBDA q :
      Bind(BSub(rv, BMulSmall(dv, q)), LAMBDA r1 :
        IF nv = 0 THEN <<(<<q>>), r1>>
        ELSE Bind(DivDigits(BShl(r1, LimbBits), dv, nv - 1), LAMBDA rest :
               <<rest[1] \o <<q>>, rest[2]>>))))

\* x / y for y # 0
FDiv(x, y) ==
  Bind2(x, y, LAMBDA u, v :
    IF ~IsNumber(u) THEN u
    ELSE IF ~IsNumber(v) THEN v
    ELSE IF IsZero(u) THEN FZero((u.s + v.s) % 2)
    ELSE Bind(DivDigits(BResize(u.m, ManLimbs + 1), BResize(v.m, ManLimbs + 1),
                        ManLimbs), LAMBDA qr :
           Round((u.s + v.s) % 2, BResize(qr[1], WideLimbs),
                 u.e - v.e - ManLimbs * LimbBits, ~BIsZero(qr[2]))))

AlignBits == ManBits + 5

\* hi + lo for two numbers that are not 0, hi.e >= lo.e
AddAligned(hi, lo) ==
  Bind3(BShl(BResize(hi.m, WideLimbs), AlignBits),
        BShl(BResize(lo.m, WideLimbs), AlignBits),
        hi.e - lo.e, LAMBDA H, L0, diff :
    Bind(IF diff >= WideLimbs * LimbBits THEN BZero(WideLimbs)
         ELSE BShr(L0, diff), LAMBDA L :
      Bind2(IF diff >= WideLimbs * LimbBits THEN TRUE
            ELSE BCmp(BShl(L, diff), L0) # 0,
            BCmp(H, L), LAMBDA lost, cmp :
        IF hi.s = lo.s THEN Round(hi.s, BAdd(H, L), hi.e - AlignBits, lost)
        ELSE IF cmp = 0 /\ ~lost THEN FZero(0)
        ELSE IF cmp >= 0
        THEN Round(hi.s,
                   IF lost THEN BSub(BSub(H, L), BOne(WideLimbs))
                   ELSE BSub(H, L),
                   hi.e - AlignBits, lost)
        ELSE Round(lo.s, BSub(L, H), hi.e - AlignBits, FALSE))))

\* x + y
FAdd(x, y) ==
  Bind2(x, y, LAMBDA u, v :
    IF ~IsNumber(u) THEN u
    ELSE IF ~IsNumber(v) THEN v
    ELSE IF IsZero(u) /\ IsZero(v)
    THEN FZero(IF u.s = 1 /\ v.s = 1 THEN 1 ELSE 0)
    ELSE IF IsZero(u) THEN v
    ELSE IF IsZero(v) THEN u
    ELSE IF u.e >= v.e THEN AddAligned(u, v)
    ELSE AddAligned(v, u))

\* x - y
FSub(x, y) == FAdd(x, FNeg(y))

\* the terms from the n-th on added to acc, from left to right
RECURSIVE SumFrom(_, _, _)
SumFrom(acc, terms, n) ==
  Bind(acc, LAMBDA sum :
    IF n > Len(terms) \/ ~IsNumber(sum) THEN sum
    ELSE SumFrom(FAdd(sum, terms[n]), terms, n + 1))

\* the terms added from left to right
SumLeft(terms) == Bind(terms, LAMBDA t : SumFrom(t[1], t, 2))

\* Python's == and < on floats: the zeros of both signs are equal
FEq(x, y) ==
  Bind2(x, y, LAMBDA u, v :
    (IsZero(u) /\ IsZero(v)) \/ (IsNumber(u) /\ u = v))

FLt(x, y) ==
  Bind2(x, y, LAMBDA u, v :
    IF ~IsNumber(u) \/ ~IsNumber(v) THEN FALSE
    ELSE IF IsZero(u) /\ IsZero(v) THEN FALSE
    ELSE IF IsZero(u) THEN v.s = 0
    ELSE IF IsZero(v) THEN u.s = 1
    ELSE IF u.s # v.s THEN u.s = 1
    ELSE LET cmp == IF u.e # v.e THEN (IF u.e > v.e THEN 1 ELSE -1)
                    ELSE BCmp(u.m, v.m)
         IN  IF u.s = 0 THEN cmp = -1 ELSE cmp = 1)

FLe(x, y) == Bind2(x, y, LAMBDA u, v : FEq(u, v) \/ FLt(u, v))

(***************************************************************************)
(* The float literals of the program.  A decimal literal is the double     *)
(* nearest to it: Lit(n, d), the correctly rounded quotient of n and d,    *)
(* for the literal n/d.  The coefficients are written out as the doubles   *)
(* they are, significand limbs least significant first.                    *)
(***************************************************************************)
Lit(n, d) == FDiv(FromInt(n), FromInt(d))

\* 100.0 = 0x1.9000000000000p+6
Hundred == [s |-> 0, m |-> <<0, 0, 0, 1600>>, e |-> -46]
\* 1.0 = 0x1.0000000000000p+0
One == [s |-> 0, m |-> <<0, 0, 0, 1024>>, e |-> -52]

\* 0.06 = 0x1.eb851eb851eb8p-5
CoefA_pa == [s |-> 0, m |-> <<7864, 11796, 1310, 1966>>, e |-> -57]
\* 0.25 = 0x1.0000000000000p-2
CoefA_ph == [s |-> 0, m |-> <<0, 0, 0, 1024>>, e |-> -54]
\* 0.19 = 0x1.851eb851eb852p-3
CoefA_pc == [s |-> 0, m |-> <<14418, 5242, 7864, 1556>>, e |-> -55]
\* 0.61 = 0x1.3851eb851eb85p-1
CoefA_pk == [s |-> 0, m |-> <<11141, 8519, 4587, 1249>>, e |-> -53]
\* 1.34 = 0x1.570a3d70a3d71p+0
CoefA_ls == [s |-> 0, m |-> <<15729, 7208, 2621, 1372>>, e |-> -52]
\* 1.35 = 0x1.599999999999ap+0
CoefA_la == [s |-> 0, m |-> <<6554, 9830, 6553, 1382>>, e |-> -52]
\* 7.52 = 0x1.e147ae147ae14p+2
CoefA_lh == [s |-> 0, m |-> <<11796, 1310, 1966, 1925>>, e |-> -50]
\* 22.1 = 0x1.619999999999ap+4
CoefA_lc == [s |-> 0, m |-> <<6554, 9830, 6553, 1414>>, e |-> -48]
\* 5.3 = 0x1.5333333333333p+2
CoefA_lk == [s |-> 0, m |-> <<13107, 3276, 13107, 1356>>, e |-> -50]
\* 3.87 = 0x1.ef5c28f5c28f6p+1
CoefA_cp == [s |-> 0, m |-> <<10486, 15728, 7208, 1981>>, e |-> -51]
\* 109.1 = 0x1.b466666666666p+6
ConstA == [s |-> 0, m |-> <<9830, 6553, 9830, 1745>>, e |-> -46]
\* -0.12 = -0x1.eb851eb851eb8p-4
CoefB_ls == [s |-> 1, m |-> <<7864, 11796, 1310, 1966>>, e |-> -56]
\* -1.37 = -0x1.5eb851eb851ecp+0
CoefB_la == [s |-> 1, m |-> <<4588, 15073, 14417, 1402>>, e |-> -52]
\* 7.4 = 0x1.d99999999999ap+2
CoefB_lh == [s |-> 0, m |-> <<6554, 9830, 6553, 1894>>, e |-> -50]
\* -23.18 = -0x1.72e147ae147aep+4
CoefB_lc == [s |-> 1, m |-> <<1966, 11141, 8519, 1483>>, e |-> -48]
\* -5.4 = -0x1.599999999999ap+2
CoefB_lk == [s |-> 1, m |-> <<6554, 9830, 6553, 1382>>, e |-> -50]
\* -4.67 = -0x1.2ae147ae147aep+2
CoefB_cp == [s |-> 1, m |-> <<1966, 11141, 8519, 1195>>, e |-> -50]
\* 115.79 = 0x1.cf28f5c28f5c3p+6
ConstB == [s |-> 0, m |-> <<13763, 12451, 10485, 1852>>, e |-> -46]

(***************************************************************************)
(* The classification of a character by its code point.                    *)
(***************************************************************************)
\* a variant: the letters A-Z and a-z only, without U+005B..U+0060
IsLatinLettersOnly(o) ==
  \/ (65 <= o /\ o <= 90) \/ (97 <= o /\ o <= 122)
  \/ (65313 <= o /\ o <= 65370)

IsLatin(o) == (65 <= o /\ o <= 122) \/ (65313 <= o /\ o <= 65370)

IsHiragana(o) == 12353 <= o /\ o <= 12438

IsKatakana(o) == 12449 <= o /\ o <= 12538

IsKanji(o) == 19968 <= o /\ o <= 40895
Kuten == 12290
Toten == 12289
IsSkipped(o) == (33 <= o /\ o <= 47) \/ (48 <= o /\ o <= 57)
                \/ (58 <= o /\ o <= 64) \/ (123 <= o /\ o <= 126)

LetterClasses == {"a", "h", "k", "c"}

\* the branch of the if/elif chain a character takes
Classify(o) ==
  IF IsLatin(o) THEN "a"
  ELSE IF IsHiragana(o) THEN "h"
  ELSE IF IsKatakana(o) THEN "k"
  ELSE IF IsKanji(o) THEN "c"
  ELSE IF o = Kuten THEN "kuten"
  ELSE IF o = Toten THEN "toten"
  ELSE IF IsSkipped(o) THEN "skip"
  ELSE "none"

(***************************************************************************)
(* The state.                                                              *)
(*   cls      the class attributes of Tateisi (the defaults)                *)
(*   objs     the instances made so far, the one under construction last:  *)
(*            the text and the instance attributes set (<<>>: not set)     *)
(*   ret      what the last call of a score method returned: the instance  *)
(*            it was called on, the method and the value; <<>> before any  *)
(*            call and once __init__ is entered again                      *)
(*   pending  the texts the caller has still to classify                   *)
(*   phase    "idle", "scan" (inside __init__) or "raised"                 *)
(*   txt, i   the text being scanned and the position of the next          *)
(*            character                                                    *)
(*   the others are the locals of __init__                                 *)
(***************************************************************************)
VARIABLES cls, objs, ret, pending, phase, txt, i,
          a, h, c, k, ar, hr, cr, kr, tt, tk, current_run

vars == <<cls, objs, ret, pending, phase, txt, i,
          a, h, c, k, ar, hr, cr, kr, tt, tk, current_run>>

locals == <<a, h, c, k, ar, hr, cr, kr, tt, tk, current_run>>

Stats == {"pa", "ph", "pc", "pk", "la", "lh", "lc", "lk", "ls", "cp"}

ClassDefaults == [n \in Stats |-> FZero(0)]

NoAttrs == [n \in Stats |-> <<>>]

\* attribute lookup: the instance's own attribute, else the class's
Attr(o, n) == IF o.d[n] # <<>> THEN o.d[n][1] ELSE cls[n]

\* a true division: Python raises ZeroDivisionError on a zero divisor
PyDiv(x, y) == IF IsZero(y) THEN Raised ELSE FDiv(x, y)

\* a variant: tk left as counted
EffKutenRaw(n) == FromInt(n)

\* a variant: one more than counted
EffKutenPlusOne(n) == FromInt(n + 1)

\* tk = tk or 1.0
EffKuten(n) == IF n # 0 THEN FromInt(n) ELSE One

\* a variant: every letter starts a run
StartsRunAlways(cur, cl) == TRUE

\* current_run != cl
StartsRun(cur, cl) == cur # cl

\* a variant: a character that is not a letter ends the run
NextRunEndedByOther(cur, cl) == IF cl \in LetterClasses THEN cl ELSE ""

\* a variant: a kuten or toten ends the run
NextRunEndedByMark(cur, cl) ==
  IF cl \in LetterClasses THEN cl
  ELSE IF cl \in {"kuten", "toten"} THEN "" ELSE cur

\* current_run after a character of branch cl: only the four letter branches
\* assign it
NextRun(cur, cl) == IF cl \in LetterClasses THEN cl ELSE cur

\* a variant: the marks counted with the letters
SentenceCharsWithMarks == a + h + c + k + tk + tt

\* a + h + c + k
SentenceChars == a + h + c + k

\* a variant: the katakana runs left out of the total
TotalRunsNoKatakana(r1, r2, r3, r4) == PyDiv(FromInt(r1 + r2 + r3), Hundred)

\* tr = (ar + hr + cr + kr) / 100.0
TotalRuns(r1, r2, r3, r4) == PyDiv(FromInt(r1 + r2 + r3 + r4), Hundred)

\* if tr != 0: self.pX = (xr / tr)
Pct(r, tr) == IF ~IsZero(tr) THEN <<PyDiv(FromInt(r), tr)>> ELSE <<>>

\* a variant: runs per character
MeanLenInverted(n, r) ==
  IF r # 0 THEN <<PyDiv(FromInt(r), FromInt(n))>> ELSE <<>>

\* if xr != 0: self.lX = (x / xr)
MeanLen(n, r) == IF r # 0 THEN <<PyDiv(FromInt(n), FromInt(r))>> ELSE <<>>

\* self.cp = (tt / tk)
Ratio(n, ek) == <<PyDiv(FromInt(n), ek)>>

\* the instance attributes __init__ sets from the counts
Derived ==
  LET ek == EffKuten(tk)
      tr == TotalRuns(ar, hr, cr, kr)
  IN  [n \in Stats |->
         CASE n = "pa" -> Pct(ar, tr)
           [] n = "ph" -> Pct(hr, tr)
           [] n = "pc" -> Pct(cr, tr)
           [] n = "pk" -> Pct(kr, tr)
           [] n = "la" -> MeanLen(a, ar)
           [] n = "lh" -> MeanLen(h, hr)
           [] n = "lc" -> MeanLen(c, cr)
           [] n = "lk" -> MeanLen(k, kr)
           [] n = "cp" -> Ratio(tt, ek)
           [] n = "ls" -> Ratio(SentenceChars, ek)]

\* calculate_rs_tateisi_a
ScoreA(o) ==
  SumLeft(<<FMul(CoefA_pa, Attr(o, "pa")),
            FMul(CoefA_ph, Attr(o, "ph")),
            FNeg(FMul(CoefA_pc, Attr(o, "pc"))),
            FNeg(FMul(CoefA_pk, Attr(o, "pk"))),
            FNeg(FMul(CoefA_ls, Attr(o, "ls"))),
            FNeg(FMul(CoefA_la, Attr(o, "la"))),
            FMul(CoefA_lh, Attr(o, "lh")),
            FNeg(FMul(CoefA_lc, Attr(o, "lc"))),
            FNeg(FMul(CoefA_lk, Attr(o, "lk"))),
            FNeg(FMul(CoefA_cp, Attr(o, "cp"))),
            FNeg(ConstA)>>)

\* calculate_rs_tateisi_b
ScoreB(o) ==
  SumLeft(<<FMul(CoefB_ls, Attr(o, "ls")),
            FMul(CoefB_la, Attr(o, "la")),
            FMul(CoefB_lh, Attr(o, "lh")),
            FMul(CoefB_lc, Attr(o, "lc")),
            FMul(CoefB_lk, Attr(o, "lk")),
            FMul(CoefB_cp, Attr(o, "cp")),
            ConstB>>)

(***************************************************************************)
(* The operations.                                                         *)
(***************************************************************************)
InitLocals ==
  /\ a = 0 /\ h = 0 /\ c = 0 /\ k = 0
  /\ ar = 0 /\ hr = 0 /\ cr = 0 /\ kr = 0
  /\ tt = 0 /\ tk = 0
  /\ current_run = ""

\* the locals as __init__ first binds them
ResetLocals ==
  /\ a' = 0 /\ h' = 0 /\ c' = 0 /\ k' = 0
  /\ ar' = 0 /\ hr' = 0 /\ cr' = 0 /\ kr' = 0
  /\ tt' = 0 /\ tk' = 0
  /\ current_run' = ""

\* Tateisi(t): __init__ is entered on the caller's next text
New ==
  /\ phase = "idle"
  /\ pending # <<>>
  /\ txt' = Head(pending)
  /\ pending' = Tail(pending)
  /\ i' = 1
  /\ objs' = Append(objs, [txt |-> Head(pending), d |-> NoAttrs])
  /\ ret' = <<>>
  /\ ResetLocals
  /\ phase' = "scan"
  /\ UNCHANGED cls

\* one iteration of "for l in txt"
Step ==
  /\ phase = "scan"
  /\ i <= Len(txt)
  /\ LET cl == Classify(txt[i]) IN
       /\ a'  = IF cl = "a" THEN a + 1 ELSE a
       /\ h'  = IF cl = "h" THEN h + 1 ELSE h
       /\ k'  = IF cl = "k" THEN k + 1 ELSE k
       /\ c'  = IF cl = "c" THEN c + 1 ELSE c
       /\ ar' = IF cl = "a" /\ StartsRun(current_run, "a") THEN ar + 1 ELSE ar
       /\ hr' = IF cl = "h" /\ StartsRun(current_run, "h") THEN hr + 1 ELSE hr
       /\ kr' = IF cl = "k" /\ StartsRun(current_run, "k") THEN kr + 1 ELSE kr
       /\ cr' = IF cl = "c" /\ StartsRun(current_run, "c") THEN cr + 1 ELSE cr
       /\ current_run' = NextRun(current_run, cl)
       /\ tk' = IF cl = "kuten" THEN tk + 1 ELSE tk
       /\ tt' = IF cl = "toten" THEN tt + 1 ELSE tt
  /\ i' = i + 1
  /\ UNCHANGED <<cls, objs, ret, pending, phase, txt>>

\* a variant: the statistics are written to the class
SetAttrsOnClass(d) ==
  /\ cls' = [n \in Stats |-> IF d[n] # <<>> THEN d[n][1] ELSE cls[n]]
  /\ UNCHANGED objs

\* the instance attributes are written
SetAttrs(d) ==
  /\ objs' = [objs EXCEPT ![Len(objs)].d = d]
  /\ UNCHANGED cls

\* the text is exhausted: the statistics are derived and __init__ returns,
\* or a division raises
Finalize ==
  /\ phase = "scan"
  /\ i > Len(txt)
  /\ LET d == Derived IN
       IF \E n \in Stats : d[n] = <<Raised>>
       THEN /\ phase' = "raised"
            /\ UNCHANGED <<cls, objs>>
       ELSE /\ phase' = "idle"
            /\ SetAttrs(d)
  /\ txt' = <<>>
  /\ i' = 0
  /\ ResetLocals
  /\ UNCHANGED <<pending, ret>>

\* the last call was method m on instance j
Returned(j, m) == ret # <<>> /\ ret.of = j /\ ret.method = m

\* o.calculate_rs_tateisi_a() on an instance: the method reads the
\* statistics and returns the score.  Repeating the last call changes
\* nothing, a stuttering step.
CalcA ==
  /\ phase = "idle"
  /\ \E j \in 1..Len(objs) :
       /\ ~Returned(j, "a")
       /\ ret' = [of |-> j, method |-> "a", value |-> ScoreA(objs[j])]
  /\ UNCHANGED <<cls, objs, pending, phase, txt, i, locals>>

\* o.calculate_rs_tateisi_b() on an instance
CalcB ==
  /\ phase = "idle"
  /\ \E j \in 1..Len(objs) :
       /\ ~Returned(j, "b")
       /\ ret' = [of |-> j, method |-> "b", value |-> ScoreB(objs[j])]
  /\ UNCHANGED <<cls, objs, pending, phase, txt, i, locals>>

Next == New \/ Step \/ Finalize \/ CalcA \/ CalcB

(***************************************************************************)
(* The inputs.                                                             *)
(***************************************************************************)
RECURSIVE TextsUpTo(_, _)
TextsUpTo(chars, n) ==
  IF n = 0 THEN {<<>>}
  ELSE LET shorter == TextsUpTo(chars, n - 1)
       IN  shorter \cup {Append(t, ch) : t \in shorter, ch \in chars}

\* A, 1, hiragana a, katakana a, a kanji, kuten, toten
Chars == {65, 49, 12354, 12450, 28450, Kuten, Toten}
MaxLen == 3

\* the texts of the unit test and of the example usage, and "aa1aa"
TestPunctuation == [n \in 1..35 |-> IF n <= 32 THEN 32 + n ELSE 90 + n]
SampleTexts ==
  {<<>>, <<Kuten>>, <<32, 32, 32>>, TestPunctuation,
   <<20693, 12399, 39995, 12384, 65281>>,
   <<97, 97, 49, 97, 97>>}

Start(inputs) ==
  /\ cls = ClassDefaults
  /\ objs = <<>>
  /\ ret = <<>>
  /\ pending \in inputs
  /\ phase = "idle"
  /\ txt = <<>>
  /\ i = 0
  /\ InitLocals

\* one text: every text of up to MaxLen characters of Chars, and the samples
Init == Start({<<t>> : t \in TextsUpTo(Chars, MaxLen) \cup SampleTexts})

Spec == Init /\ [][Next]_vars

\* one text of up to MaxRuns letters of hiragana, katakana and kanji, no
\* two neighbours of the same class, so that every letter starts a run; and
\* a few such texts with Latin letters
RunChars == {12354, 12450, 28450}
MaxRuns == 7

RECURSIVE RunTexts(_)
RunTexts(n) ==
  IF n = 0 THEN {<<>>}
  ELSE LET shorter == RunTexts(n - 1)
           longer  == {q \in shorter \X RunChars :
                         /\ Len(q[1]) = n - 1
                         /\ n = 1 \/ Classify(q[1][n - 1]) # Classify(q[2])}
       IN  shorter \cup {Append(q[1], q[2]) : q \in longer}

LatinRunTexts ==
  {<<65>>,
   <<65, 12354, 12450, 28450>>,
   <<65, 12354, 65, 28450, 65, 12450>>,
   <<65, 28450, 65, 28450, 65, 12354, 12450>>}

InitRuns == Start({<<t>> : t \in RunTexts(MaxRuns) \cup LatinRunTexts})

SpecRuns == InitRuns /\ [][Next]_vars

\* up to MaxInst instances, one after another, of a few texts: a text
\* without kuten, the same text with one kuten added, and a text with two
HistoryTexts ==
  {<<65, 12289, 12354>>,
   <<65, 12289, 12290, 12354>>,
   <<28450, 12290, 12290>>}

MaxInst == 3

InitHistory == Start(TextsUpTo(HistoryTexts, MaxInst))

SpecHistory == InitHistory /\ [][Next]_vars

\* one text: a prefix of up to MaxPrefix letters, then one character out of
\* printable ASCII and of the two characters either side of every boundary
\* of the tests in __init__
BoundaryChars ==
  (32..127) \cup
  {12288, 12289, 12290, 12291, 12352, 12353, 12438, 12439, 12448, 12449,
   12538, 12539, 19967, 19968, 40895, 40896, 65312, 65313, 65370, 65371}

MaxPrefix == 1

InitChars ==
  Start({<<Append(q[1], q[2])>> :
           q \in TextsUpTo({65, 12354}, MaxPrefix) \X BoundaryChars})

SpecChars == InitChars /\ [][Next]_vars

(***************************************************************************)
(* The vocabulary of the claims: the character classes as the              *)
(* specification's table gives them, and what a text holds.                *)
(***************************************************************************)
LetterClassOf(o) ==
  IF (65 <= o /\ o <= 122) \/ (65313 <= o /\ o <= 65370) THEN "a"
  ELSE IF 12353 <= o /\ o <= 12438 THEN "h"
  ELSE IF 12449 <= o /\ o <= 12538 THEN "k"
  ELSE IF 19968 <= o /\ o <= 40895 THEN "c"
  ELSE ""

IsLetter(o) == LetterClassOf(o) # ""

IsMark(o) == o = 12290 \/ o = 12289

Letters(t) == SelectSeq(t, IsLetter)

NumLetters(t) == Len(Letters(t))

NumOf(t, o) == Cardinality({p \in 1..Len(t) : t[p] = o})

NumInClass(t, X) == Cardinality({p \in 1..Len(t) : LetterClassOf(t[p]) = X})

\* the maximal blocks of class X in a sequence of letters
Blocks(f, X) ==
  Cardinality({p \in 1..Len(f) :
                 /\ LetterClassOf(f[p]) = X
                 /\ p = 1 \/ LetterClassOf(f[p - 1]) # X})

\* the part of the text already read
Prefix == SubSeq(txt, 1, i - 1)

\* instance j has left __init__
Constructed(j) == j \in 1..Len(objs) /\ (j < Len(objs) \/ phase = "idle")

AllStatsZero(o) == \A n \in Stats : FEq(Attr(o, n), FZero(0))

\* whatever score of instance j was returned is sa (method a) or sb (b)
ScoresAre(j, sa, sb) ==
  /\ Returned(j, "a") => ret.value = sa
  /\ Returned(j, "b") => ret.value = sb

FAbs(x) == IF IsNumber(x) THEN [x EXCEPT !.s = 0] ELSE x

\* 2^n
Pow2(n) == [One EXCEPT !.e = One.e + n]

\* |x - y| <= tol
Within(x, y, tol) == FLe(FAbs(FSub(x, y)), tol)

(***************************************************************************)
(* C1 as stated: a text with no letter and no kuten (or a lone kuten) has  *)
(* all ten statistics 0, score B 115.79 and score A -109.1.                *)
(***************************************************************************)
C1_AsStated ==
  \A j \in 1..Len(objs) :
    (/\ Constructed(j)
     /\ \/ NumLetters(objs[j].txt) = 0 /\ NumOf(objs[j].txt, 12290) = 0
        \/ objs[j].txt = <<12290>>)
    => /\ AllStatsZero(objs[j])
       /\ ScoresAre(j, FNeg(ConstA), ConstB)

(***************************************************************************)
(* C1, amended: a text with no letter and no toten (kuten marks may occur) *)
(* has all ten statistics 0, score B exactly 115.79 and score A exactly    *)
(* -109.1.                                                                 *)
(***************************************************************************)
C1_NoLetterNoToten ==
  \A j \in 1..Len(objs) :
    (/\ Constructed(j)
     /\ NumLetters(objs[j].txt) = 0
     /\ NumOf(objs[j].txt, 12289) = 0)
    => /\ AllStatsZero(objs[j])
       /\ ScoresAre(j, FNeg(ConstA), ConstB)

\* the punctuation string of the unit test has been classified and scored
C1_Witness ==
  \E j \in 1..Len(objs) :
    /\ Constructed(j)
    /\ objs[j].txt = TestPunctuation
    /\ Returned(j, "b")

\* pa + ph + pc + pk, added from the left as Python adds
PctSum(o) ==
  SumLeft(<<Attr(o, "pa"), Attr(o, "ph"), Attr(o, "pc"), Attr(o, "pk")>>)

\* the four run counters at the end of the scan, by percentage name
RunsOf(n) ==
  CASE n = "pa" -> ar [] n = "ph" -> hr [] n = "pc" -> cr [] n = "pk" -> kr

PctNames == {"pa", "ph", "pc", "pk"}

\* the instance __init__ is about to hand back
Built == objs'[Len(objs)]

(***************************************************************************)
(* C2 as stated: after construction the four percentages add up to exactly *)
(* 100 when there is a run and to 0 otherwise, and each is                 *)
(* 100 * runCount / total.                                                 *)
(***************************************************************************)
C2_AsStated ==
  [][Finalize =>
       IF ar + hr + cr + kr > 0
       THEN /\ PctSum(Built) = Hundred
            /\ \A n \in PctNames :
                 Attr(Built, n) = Lit(100 * RunsOf(n), ar + hr + cr + kr)
       ELSE FEq(PctSum(Built), FZero(0))]_vars

(***************************************************************************)
(* C2, amended: with no run the four percentages are 0 and so is their     *)
(* sum; with runs, each percentage is within a relative 2^-51 of           *)
(* 100 * runCount / total, their floating-point sum is within 2^-44 of     *)
(* 100, and the sum is exactly 100 when there are at most five runs.       *)
(***************************************************************************)
C2_UpToRounding ==
  [][Finalize =>
       IF ar + hr + cr + kr > 0
       THEN /\ Within(PctSum(Built), Hundred, Pow2(-44))
            /\ ar + hr + cr + kr <= 5 => PctSum(Built) = Hundred
            /\ \A n \in PctNames :
                 LET q == Lit(100 * RunsOf(n), ar + hr + cr + kr)
                 IN  Within(Attr(Built, n), q, FMul(q, Pow2(-51)))
       ELSE /\ FEq(PctSum(Built), FZero(0))
            /\ \A n \in PctNames : FEq(Attr(Built, n), FZero(0))]_vars

\* an instance of six runs whose percentages do not add up to exactly 100
C2_Witness ==
  \E j \in 1..Len(objs) :
    /\ Constructed(j)
    /\ NumLetters(objs[j].txt) = 6
    /\ PctSum(objs[j]) # Hundred
    /\ Within(PctSum(objs[j]), Hundred, Pow2(-44))

\* the scan's counters, by class
RunCount(X) ==
  CASE X = "a" -> ar [] X = "h" -> hr [] X = "k" -> kr [] X = "c" -> cr

CharCount(X) ==
  CASE X = "a" -> a [] X = "h" -> h [] X = "k" -> k [] X = "c" -> c

MeanName(X) ==
  CASE X = "a" -> "la" [] X = "h" -> "lh" [] X = "k" -> "lk" [] X = "c" -> "lc"

PctName(X) ==
  CASE X = "a" -> "pa" [] X = "h" -> "ph" [] X = "k" -> "pk" [] X = "c" -> "pc"

Classes == {"a", "h", "k", "c"}

(***************************************************************************)
(* C3: characters that are not letters do not break a run.  The run        *)
(* counter of each class is the number of maximal blocks of that class in  *)
(* the text with every non-letter removed, the character counter is the    *)
(* number of its letters, and the mean run length of a constructed         *)
(* instance is their quotient; "aa1aa" is one Alphabet run of 4, la = 4.   *)
(***************************************************************************)
C3_RunsAreBlocksOfLetters ==
  /\ phase = "scan" =>
       \A X \in Classes :
         /\ RunCount(X) = Blocks(Letters(Prefix), X)
         /\ CharCount(X) = NumInClass(Prefix, X)
  /\ \A j \in 1..Len(objs) :
       Constructed(j) =>
         /\ \A X \in Classes :
              NumInClass(objs[j].txt, X) > 0 =>
                Attr(objs[j], MeanName(X))
                  = FDiv(FromInt(NumInClass(objs[j].txt, X)),
                         FromInt(Blocks(Letters(objs[j].txt), X)))
         /\ objs[j].txt = <<97, 97, 49, 97, 97>> =>
              Attr(objs[j], "la") = FromInt(4)

\* "aa1aa" has been read to its end as one run of four
C3_Witness ==
  /\ phase = "scan"
  /\ txt = <<97, 97, 49, 97, 97>>
  /\ i = 6
  /\ ar = 1
  /\ a = 4

(***************************************************************************)
(* C4: a class has at least as many characters as runs, and no run exactly *)
(* when it has no character; the mean run length of a constructed instance *)
(* is at least 1 for a class that occurs in the text and 0 for one that    *)
(* does not.                                                               *)
(***************************************************************************)
C4_MeanRunLength ==
  /\ phase = "scan" =>
       \A X \in Classes :
         /\ CharCount(X) >= RunCount(X)
         /\ RunCount(X) = 0 <=> CharCount(X) = 0
  /\ \A j \in 1..Len(objs) :
       Constructed(j) =>
         \A X \in Classes :
           IF NumInClass(objs[j].txt, X) > 0
           THEN FLe(One, Attr(objs[j], MeanName(X)))
           ELSE FEq(Attr(objs[j], MeanName(X)), FZero(0))

\* an instance with a run longer than one character and an absent class
C4_Witness ==
  \E j \in 1..Len(objs) :
    /\ Constructed(j)
    /\ FLt(One, Attr(objs[j], "la"))
    /\ FEq(Attr(objs[j], "lh"), FZero(0))

(***************************************************************************)
(* C5: construction and the two score methods never fail on any text: no   *)
(* division has a zero divisor, and every statistic and score is a finite  *)
(* number.                                                                 *)
(***************************************************************************)
C5_NeverFails ==
  /\ phase # "raised"
  /\ \A j \in 1..Len(objs) : \A n \in Stats : IsNumber(Attr(objs[j], n))
  /\ ret # <<>> => IsNumber(ret.value)

\* a text with letters and without a kuten has been constructed and scored
C5_Witness ==
  \E j \in 1..Len(objs) :
    /\ Constructed(j)
    /\ NumLetters(objs[j].txt) > 0
    /\ NumOf(objs[j].txt, 12290) = 0
    /\ Returned(j, "a")

\* the counters after the step
RunCountNext(X) ==
  CASE X = "a" -> ar' [] X = "h" -> hr' [] X = "k" -> kr' [] X = "c" -> cr'

CharCountNext(X) ==
  CASE X = "a" -> a' [] X = "h" -> h' [] X = "k" -> k' [] X = "c" -> c'

LetterCountersUnchanged ==
  \A X \in Classes :
    RunCountNext(X) = RunCount(X) /\ CharCountNext(X) = CharCount(X)

\* the class of the last letter read so far, "" when there is none
LastLetterClass ==
  IF NumLetters(Prefix) = 0 THEN ""
  ELSE LetterClassOf(Letters(Prefix)[NumLetters(Prefix)])

\* only kuten and toten marks lie between the last letter read and position i
OnlyMarksSinceLastLetter ==
  \E p \in 1..(i - 1) :
    /\ IsLetter(txt[p])
    /\ p < i - 1
    /\ \A q \in (p + 1)..(i - 1) : IsMark(txt[q])

(***************************************************************************)
(* C8: reading a kuten changes only the kuten counter, by +1; reading a    *)
(* toten changes only the toten counter, by +1; reading any other          *)
(* non-letter changes nothing; in all three cases the current run and the  *)
(* eight letter counters stay as they are.  So a letter that follows a     *)
(* letter of its own class across kuten and toten marks starts no run.     *)
(***************************************************************************)
C8_MarksAndOthersFrame ==
  [][Step =>
       /\ txt[i] = 12290 =>
            /\ tk' = tk + 1 /\ tt' = tt
            /\ current_run' = current_run /\ LetterCountersUnchanged
       /\ txt[i] = 12289 =>
            /\ tt' = tt + 1 /\ tk' = tk
            /\ current_run' = current_run /\ LetterCountersUnchanged
       /\ ~IsLetter(txt[i]) /\ ~IsMark(txt[i]) =>
            /\ tk' = tk /\ tt' = tt
            /\ current_run' = current_run /\ LetterCountersUnchanged
       /\ (/\ IsLetter(txt[i])
           /\ OnlyMarksSinceLastLetter
           /\ LastLetterClass = LetterClassOf(txt[i])) =>
            \A X \in Classes : RunCountNext(X) = RunCount(X)]_vars

\* two letters of one class with a kuten between them have been read as one run
C8_Witness ==
  /\ phase = "scan"
  /\ txt = <<65, 12290, 65>>
  /\ i = 4
  /\ ar = 1
  /\ tk = 1

(***************************************************************************)
(* C10: after any prefix the current run is unset exactly when all four    *)
(* run counters are 0; otherwise it is the class of the last letter read   *)
(* and that class has at least one run.  Every class has at most one run   *)
(* more than the other three together, a letter raises the total number of *)
(* runs by at most 1, and a text whose letters are all of one class has    *)
(* exactly one run and a percentage of 100 for that class.                 *)
(***************************************************************************)
C10_ScanInvariant ==
  /\ [](/\ phase = "scan" =>
             /\ current_run = "" <=> ar + hr + cr + kr = 0
             /\ current_run = LastLetterClass
             /\ current_run # "" => RunCount(current_run) >= 1
             /\ \A X \in Classes :
                  2 * RunCount(X) <= 1 + ar + hr + cr + kr
             /\ \A X \in Classes :
                  (NumLetters(Prefix) > 0
                     /\ NumInClass(Prefix, X) = NumLetters(Prefix))
                  => RunCount(X) = 1 /\ ar + hr + cr + kr = 1
        /\ \A j \in 1..Len(objs) : \A X \in Classes :
             (/\ Constructed(j)
              /\ NumLetters(objs[j].txt) > 0
              /\ NumInClass(objs[j].txt, X) = NumLetters(objs[j].txt))
             => Attr(objs[j], PctName(X)) = Hundred)
  /\ [][Step =>
          /\ ar' + hr' + cr' + kr' <= ar + hr + cr + kr + 1
          /\ ar' + hr' + cr' + kr' >= ar + hr + cr + kr
          /\ ~IsLetter(txt[i]) => ar' + hr' + cr' + kr' = ar + hr + cr + kr]_vars

\* three letters of one class have been read as a single run
C10_Witness ==
  /\ phase = "scan"
  /\ txt = <<12354, 12354, 12354>>
  /\ i = 4
  /\ hr = 1
  /\ current_run = "h"

\* the score that method m gives for instance o
ScoreOf(o, m) == IF m = "a" THEN ScoreA(o) ELSE ScoreB(o)

(***************************************************************************)
(* C6: classifying is deterministic and independent of history.  Two       *)
(* instances constructed on the same text, whatever was classified before  *)
(* or between them, have identical statistics, and a score returned for    *)
(* one is the score of the other; the class-level defaults stay 0; and no  *)
(* step changes the statistics of an instance already constructed.         *)
(***************************************************************************)
C6_HistoryIndependent ==
  /\ [](/\ cls = ClassDefaults
        /\ \A j1, j2 \in 1..Len(objs) :
             (/\ Constructed(j1) /\ Constructed(j2)
              /\ objs[j1].txt = objs[j2].txt)
             => /\ \A n \in Stats : Attr(objs[j1], n) = Attr(objs[j2], n)
                /\ \A m \in {"a", "b"} :
                     Returned(j1, m) => ret.value = ScoreOf(objs[j2], m))
  /\ [][\A j \in 1..Len(objs) :
          Constructed(j) =>
            /\ objs'[j].d = objs[j].d
            /\ objs'[j].txt = objs[j].txt
            /\ \A n \in Stats : Attr(objs'[j], n) = Attr(objs[j], n)]_vars

\* one text classified twice with a different text in between, and the
\* second instance scored
C6_Witness ==
  /\ Len(objs) = 3
  /\ Constructed(3)
  /\ objs[1].txt = objs[3].txt
  /\ objs[2].txt # objs[1].txt
  /\ NumLetters(objs[1].txt) > 0
  /\ NumLetters(objs[2].txt) > 0
  /\ Returned(3, "a")
  /\ ret.value = ScoreA(objs[1])

\* the kuten count with 1 standing in for 0
EffectiveKutenOf(t) == IF NumOf(t, 12290) > 0 THEN NumOf(t, 12290) ELSE 1

NotKuten(o) == o # 12290

\* t2 is t1, which has no kuten, with exactly one kuten added
OneKutenAdded(t1, t2) ==
  /\ NumOf(t1, 12290) = 0
  /\ NumOf(t2, 12290) = 1
  /\ SelectSeq(t2, NotKuten) = t1

(***************************************************************************)
(* C9: with effectiveKuten the kuten count, or 1 when that is 0, cp is the *)
(* toten count over effectiveKuten and ls is the number of letters of the  *)
(* four classes over effectiveKuten; marks and other characters are not    *)
(* counted in ls.  A text without kuten and the same text with one kuten   *)
(* added have the same cp and the same ls.                                 *)
(***************************************************************************)
C9_PunctuationStatistics ==
  /\ \A j \in 1..Len(objs) :
       Constructed(j) =>
         /\ Attr(objs[j], "cp")
              = FDiv(FromInt(NumOf(objs[j].txt, 12289)),
                     FromInt(EffectiveKutenOf(objs[j].txt)))
         /\ Attr(objs[j], "ls")
              = FDiv(FromInt(NumLetters(objs[j].txt)),
                     FromInt(EffectiveKutenOf(objs[j].txt)))
  /\ \A j1, j2 \in 1..Len(objs) :
       (/\ Constructed(j1) /\ Constructed(j2)
        /\ OneKutenAdded(objs[j1].txt, objs[j2].txt))
       => /\ Attr(objs[j1], "cp") = Attr(objs[j2], "cp")
          /\ Attr(objs[j1], "ls") = Attr(objs[j2], "ls")

\* a text without kuten and the same text with one kuten, both constructed
C9_Witness ==
  \E j1, j2 \in 1..Len(objs) :
    /\ Constructed(j1) /\ Constructed(j2)
    /\ OneKutenAdded(objs[j1].txt, objs[j2].txt)
    /\ Attr(objs[j1], "cp") = One
    /\ Attr(objs[j2], "ls") = FromInt(2)

\* the counters that change in the step, marks included
Changed ==
  {X \in Classes :
     RunCountNext(X) # RunCount(X) \/ CharCountNext(X) # CharCount(X)}
    \cup (IF tk' # tk THEN {"kuten"} ELSE {})
    \cup (IF tt' # tt THEN {"toten"} ELSE {})

\* the first predicate of the fixed order that the character matches
FirstMatch(o) ==
  IF IsLetter(o) THEN LetterClassOf(o)
  ELSE IF o = 12290 THEN "kuten"
  ELSE IF o = 12289 THEN "toten"
  ELSE "other"

\* the step counted the character as a letter of class X
CountedAs(X) ==
  /\ CharCountNext(X) = CharCount(X) + 1
  /\ RunCountNext(X) = RunCount(X) + (IF current_run = X THEN 0 ELSE 1)
  /\ current_run' = X
  /\ Changed = {X}

(***************************************************************************)
(* C7: a character is classified by the first predicate it matches in the  *)
(* order Alphabet, Hiragana, Katakana, Kanji, Kuten, Toten, Other, and at  *)
(* most one class's counters change.  U+005B..U+0060 lie inside the        *)
(* Alphabet interval and are counted as Alphabet characters, starting or   *)
(* extending an Alphabet run as a letter does; the digits U+0030..U+0039   *)
(* and the punctuation U+0021..U+002F, U+003A..U+0040, U+007B..U+007E      *)
(* change no counter.                                                      *)
(***************************************************************************)
C7_FirstMatchInFixedOrder ==
  [][Step =>
       /\ Cardinality(Changed) <= 1
       /\ Changed \subseteq {FirstMatch(txt[i])}
       /\ IsLetter(txt[i]) => CountedAs(LetterClassOf(txt[i]))
       /\ FirstMatch(txt[i]) = "kuten" => Changed = {"kuten"}
       /\ FirstMatch(txt[i]) = "toten" => Changed = {"toten"}
       /\ txt[i] \in 91..96 => CountedAs("a")
       /\ txt[i] \in (48..57) \cup (33..47) \cup (58..64) \cup (123..126) =>
            Changed = {} /\ current_run' = current_run]_vars

\* an underscore after a letter has extended the Alphabet run
C7_Witness ==
  /\ phase = "scan"
  /\ txt = <<65, 95>>
  /\ i = 3
  /\ a = 2
  /\ ar = 1
  /\ current_run = "a"

=============================================================================
